---------------------------- MODULE Spec2Model ----------------------------
(***************************************************************************)
(* Asset graph page of dagit (workspace/AssetGraphRoot.tsx): construction  *)
(* of the asset graph from the fetched asset definitions, detection of     *)
(* cycles, and computation of the per-node freshness status.               *)
(*                                                                         *)
(* JavaScript objects and Sets iterate their keys in insertion order (all  *)
(* keys here are JSON strings of the form ["..."], never array indices),   *)
(* so an object is modelled as a sequence of [k, v] entries with distinct  *)
(* keys and a Set as a sequence of distinct members.                       *)
(***************************************************************************)
EXTENDS Integers, Sequences, FiniteSets, TLC

(* ------------------------------ bounds -------------------------------- *)

\* Total number of dependency records in one fetched list of definitions.
MaxEdges == 3

\* Largest stepStats.startTime of a materialization event.
MaxTs == 2

\* Total number of dependency records in the lists used for edge collapsing.
MaxRecords == 3

\* Call-stack frames the engine allows findComputeStatusForId before it
\* throws RangeError (more than the number of ids of any modelled graph).
StackLimit == 6

\* Asset key paths of the declared assets, in the order the repository lists
\* them, and the path of an asset no definition declares.
DeclaredPaths == << <<"a">>, <<"b">>, <<"c">> >>
ForeignPath == <<"z">>
InputNames == {"x", "y"}

(* ------------------------ JavaScript objects -------------------------- *)

SeqToSet(s) == {s[i] : i \in DOMAIN s}

InSeq(s, x) == \E i \in DOMAIN s : s[i] = x

ObjKeys(o) == [i \in DOMAIN o |-> o[i].k]

ObjHas(o, k) == \E i \in DOMAIN o : o[i].k = k

ObjGet(o, k) == o[CHOOSE i \in DOMAIN o : o[i].k = k].v

\* o[k] = v, and {...o, [k]: v}: an existing key keeps its place.
ObjSet(o, k, v) ==
    IF ObjHas(o, k)
    THEN [i \in DOMAIN o |-> IF o[i].k = k THEN [k |-> k, v |-> v] ELSE o[i]]
    ELSE Append(o, [k |-> k, v |-> v])

\* JSON.stringify of a path (an array of strings) is injective: the id of a
\* node is represented by the path it serialises.
JSONStringify(path) == path

(* --------------------------- buildGraphData --------------------------- *)

RECURSIVE AddDependenciesKeepFirst(_, _, _)
\* Variant of AddDependencies in which a pair that already has an entry keeps
\* the input name of its first record.
AddDependenciesKeepFirst(downstream, assetKeyJson, dependencies) ==
    IF dependencies = <<>> THEN downstream
    ELSE LET dependency == Head(dependencies)
             upstreamAssetKeyJson ==
                 JSONStringify(dependency.upstreamAsset.assetKey.path)
             old == IF ObjHas(downstream, upstreamAssetKeyJson)
                    THEN ObjGet(downstream, upstreamAssetKeyJson)
                    ELSE <<>>
         IN AddDependenciesKeepFirst(
                ObjSet(downstream, upstreamAssetKeyJson,
                       IF ObjHas(old, assetKeyJson) THEN old
                       ELSE ObjSet(old, assetKeyJson, dependency.inputName)),
                assetKeyJson, Tail(dependencies))

RECURSIVE AddDependencies(_, _, _)
\* definition.dependencies.forEach(...), lines 93-99
AddDependencies(downstream, assetKeyJson, dependencies) ==
    IF dependencies = <<>> THEN downstream
    ELSE LET dependency == Head(dependencies)
             upstreamAssetKeyJson ==
                 JSONStringify(dependency.upstreamAsset.assetKey.path)
             old == IF ObjHas(downstream, upstreamAssetKeyJson)
                    THEN ObjGet(downstream, upstreamAssetKeyJson)
                    ELSE <<>>
         IN AddDependencies(
                ObjSet(downstream, upstreamAssetKeyJson,
                       ObjSet(old, assetKeyJson, dependency.inputName)),
                assetKeyJson, Tail(dependencies))

RECURSIVE AddDefinitions(_, _)
\* assetDefinitions.forEach(...), lines 86-100
AddDefinitions(g, assetDefinitions) ==
    IF assetDefinitions = <<>> THEN g
    ELSE LET definition == Head(assetDefinitions)
             assetKeyJson == JSONStringify(definition.assetKey.path)
         IN AddDefinitions(
                [nodes |-> ObjSet(g.nodes, assetKeyJson,
                                  [id |-> assetKeyJson,
                                   assetKey |-> definition.assetKey,
                                   definition |-> definition]),
                 downstream |-> AddDependencies(g.downstream, assetKeyJson,
                                                definition.dependencies)],
                Tail(assetDefinitions))

buildGraphData(assetDefinitions) ==
    AddDefinitions([nodes |-> <<>>, downstream |-> <<>>], assetDefinitions)

(* ------------------------- fetched definitions ------------------------ *)

Dependency(path, inputName) ==
    [inputName |-> inputName, upstreamAsset |-> [assetKey |-> [path |-> path]]]

\* An AssetGraphQuery assetDefinitions record; assetMaterializations(limit: 1)
\* holds at most one event, of which only stepStats.startTime is read; a
\* missing stepStats or startTime is the startTime 0 (both read as 0, line 570).
Definition(path, dependencies, assetMaterializations) ==
    [assetKey |-> [path |-> path],
     dependencies |-> dependencies,
     assetMaterializations |-> assetMaterializations]

Materializations ==
    {<<>>} \cup {<<[startTime |-> t]>> : t \in 0 .. MaxTs}

RECURSIVE DependencyLists(_, _, _)
DependencyLists(paths, names, len) ==
    IF len = 0 THEN {<<>>}
    ELSE {Append(l, Dependency(p, n)) :
              l \in DependencyLists(paths, names, len - 1),
              p \in paths, n \in names}

DistinctUpstreams(l) ==
    \A i, j \in DOMAIN l :
        i # j => l[i].upstreamAsset.assetKey.path # l[j].upstreamAsset.assetKey.path

\* The upstream keys a dependency of a list of total definitions may name: the
\* declared ones and one that no definition declares.
UpstreamChoices(total) == {DeclaredPaths[i] : i \in 1 .. total} \cup {ForeignPath}

\* Dependency lists of one definition whose upstreams are distinct, by the
\* number of definitions in the list.
GraphDependencies ==
    [total \in 0 .. Len(DeclaredPaths) |->
        UNION {{l \in DependencyLists(UpstreamChoices(total), {"x"}, k) :
                    DistinctUpstreams(l)} : k \in 0 .. MaxEdges}]

\* Dependency lists of one definition that may repeat an upstream under
\* several input names.
RepeatedDependencies ==
    [total \in 0 .. 2 |->
        UNION {DependencyLists(UpstreamChoices(total), InputNames, k) :
                   k \in 0 .. MaxRecords}]

RECURSIVE TotalLen(_)
TotalLen(lists) == IF lists = <<>> THEN 0 ELSE Len(Head(lists)) + TotalLen(Tail(lists))

\* Ids are opaque: a fetched list is taken up to the renaming of its keys, the
\* i-th definition declaring DeclaredPaths[i].
DefinitionList(deps, mats) ==
    [i \in DOMAIN deps |-> Definition(DeclaredPaths[i], deps[i], mats[i])]

(* --------------------------- graphHasCycles --------------------------- *)

Remove(s, x) == SelectSeq(s, LAMBDA y : y # x)

Downstreams(graph, node) ==
    IF ObjHas(graph.downstream, node)
    THEN ObjKeys(ObjGet(graph.downstream, node))
    ELSE <<>>

RECURSIVE search(_, _, _, _)
RECURSIVE searchSome(_, _, _, _)
\* Variant of search that reports any node visited before, on the current
\* path or not.
searchAnyVisited(graph, remaining, stack, node) ==
    IF InSeq(remaining, node)
    THEN searchSome(graph, Remove(remaining, node), Append(stack, node),
                    Downstreams(graph, node))
    ELSE [result |-> TRUE, nodes |-> remaining]

\* search, lines 107-118; remaining is the Set nodes, which search mutates.
search(graph, remaining, stack, node) ==
    IF InSeq(stack, node) THEN [result |-> TRUE, nodes |-> remaining]
    ELSE IF InSeq(remaining, node)
         THEN searchSome(graph, Remove(remaining, node), Append(stack, node),
                         Downstreams(graph, node))
         ELSE [result |-> FALSE, nodes |-> remaining]

\* Array.prototype.some over the downstream ids, lines 113-115: stops at the
\* first search that returns true.
searchSome(graph, remaining, nextStack, nextNodes) ==
    IF nextNodes = <<>> THEN [result |-> FALSE, nodes |-> remaining]
    ELSE LET r == search(graph, remaining, nextStack, Head(nextNodes))
         IN IF r.result THEN r
            ELSE searchSome(graph, r.nodes, nextStack, Tail(nextNodes))

(* ----------------------------- layoutGraph ---------------------------- *)

\* layoutGraph, lines 126-185. dagre computes the coordinates; what is kept is
\* which nodes and edges the result holds: a node per graph node (an id that
\* only an edge names has no dagre label and is skipped, lines 148-151) and an
\* edge per upstream/downstream pair.
layoutGraph(graph) ==
    [nodes |-> ObjKeys(graph.nodes),
     edges |-> UNION {{<<u, d>> : d \in SeqToSet(Downstreams(graph, u))} :
                          u \in SeqToSet(ObjKeys(graph.downstream))}]

(* ---------------------- buildGraphComputeStatuses --------------------- *)

EmptyMap == [id \in {} |-> "none"]

Assign(map, id, value) == (id :> value) @@ map

\* assetMaterializations[0]?.materializationEvent.stepStats?.startTime || 0
StartTimeOrZero(definition) ==
    IF definition.assetMaterializations = <<>> THEN 0
    ELSE definition.assetMaterializations[1].startTime

\* lines 567-571
Timestamps(graph) ==
    [id \in SeqToSet(ObjKeys(graph.nodes)) |->
        StartTimeOrZero(ObjGet(graph.nodes, id).definition)]

\* lines 572-580: every upstream id, in the key order of graph.downstream, is
\* pushed once onto the list of each of its downstream ids.
Upstream(graph) ==
    [d \in UNION {SeqToSet(Downstreams(graph, u)) :
                      u \in SeqToSet(ObjKeys(graph.downstream))} |->
        SelectSeq(ObjKeys(graph.downstream),
                  LAMBDA u : InSeq(Downstreams(graph, u), d))]

\* lines 582-588
NoneStatuses(graph) ==
    [id \in {n \in SeqToSet(ObjKeys(graph.nodes)) :
                 ObjGet(graph.nodes, n).definition.assetMaterializations = <<>>} |->
        "none"]

\* Variant of Newer with >= for >.
NewerOrEqual(timestamps, uid, id) ==
    /\ uid \in DOMAIN timestamps
    /\ id \in DOMAIN timestamps
    /\ timestamps[uid] >= timestamps[id]

\* timestamps[uid] > ts: a comparison with undefined (an id that is no node)
\* is false.
Newer(timestamps, uid, id) ==
    /\ uid \in DOMAIN timestamps
    /\ id \in DOMAIN timestamps
    /\ timestamps[uid] > timestamps[id]

\* upstream[id] || []
UpstreamIds(upstream, id) == IF id \in DOMAIN upstream THEN upstream[id] ELSE <<>>

RECURSIVE findComputeStatusForId(_, _, _, _, _)
RECURSIVE someNotGood(_, _, _, _, _)
\* Variant of findComputeStatusForId whose recursive calls pass id for uid.
findComputeStatusForIdSelf(timestamps, statuses, upstream, id, depth) ==
    IF depth > StackLimit THEN [statuses |-> statuses, status |-> "RangeError"]
    ELSE IF id \in DOMAIN statuses THEN [statuses |-> statuses, status |-> statuses[id]]
    ELSE LET upstreamIds == UpstreamIds(upstream, id) IN
         IF \E i \in DOMAIN upstreamIds : Newer(timestamps, upstreamIds[i], id)
         THEN [statuses |-> Assign(statuses, id, "old"), status |-> "old"]
         ELSE LET r == someNotGood(timestamps, statuses, upstream,
                                   [i \in DOMAIN upstreamIds |-> id], depth + 1)
              IN IF r.result = "RangeError"
                 THEN [statuses |-> r.statuses, status |-> "RangeError"]
                 ELSE LET status == IF r.result = "true" THEN "downstream-from-old"
                                    ELSE "good"
                      IN [statuses |-> Assign(r.statuses, id, status), status |-> status]

\* Variant of findComputeStatusForId that reads the statuses stored for the
\* upstreams instead of computing them.
findComputeStatusForIdShallow(timestamps, statuses, upstream, id, depth) ==
    IF id \in DOMAIN statuses THEN [statuses |-> statuses, status |-> statuses[id]]
    ELSE LET upstreamIds == UpstreamIds(upstream, id)
             status ==
                 IF \E i \in DOMAIN upstreamIds : Newer(timestamps, upstreamIds[i], id)
                 THEN "old"
                 ELSE IF \E i \in DOMAIN upstreamIds :
                            /\ upstreamIds[i] \in DOMAIN statuses
                            /\ statuses[upstreamIds[i]] # "good"
                      THEN "downstream-from-old"
                      ELSE "good"
         IN [statuses |-> Assign(statuses, id, status), status |-> status]

\* Variant of findComputeStatusForId without the test of line 606.
findComputeStatusForIdNoMemo(timestamps, statuses, upstream, id, depth) ==
    IF depth > StackLimit THEN [statuses |-> statuses, status |-> "RangeError"]
    ELSE LET upstreamIds == UpstreamIds(upstream, id) IN
         IF \E i \in DOMAIN upstreamIds : Newer(timestamps, upstreamIds[i], id)
         THEN [statuses |-> Assign(statuses, id, "old"), status |-> "old"]
         ELSE LET r == someNotGood(timestamps, statuses, upstream, upstreamIds, depth + 1)
              IN IF r.result = "RangeError"
                 THEN [statuses |-> r.statuses, status |-> "RangeError"]
                 ELSE LET status == IF r.result = "true" THEN "downstream-from-old"
                                    ELSE "good"
                      IN [statuses |-> Assign(r.statuses, id, status), status |-> status]

\* Variant of someNotGood that asks for an 'old' upstream instead of one that
\* is not 'good'.
someOld(timestamps, statuses, upstream, uids, depth) ==
    IF uids = <<>> THEN [statuses |-> statuses, result |-> "false"]
    ELSE LET r == findComputeStatusForId(timestamps, statuses, upstream, Head(uids), depth)
         IN IF r.status = "RangeError"
            THEN [statuses |-> r.statuses, result |-> "RangeError"]
            ELSE IF r.status = "old"
                 THEN [statuses |-> r.statuses, result |-> "true"]
                 ELSE someNotGood(timestamps, r.statuses, upstream, Tail(uids), depth)

\* findComputeStatusForId, lines 598-619, called with depth frames on the
\* stack; the status "RangeError" stands for the exception the engine throws
\* when the recursion exhausts the stack.
findComputeStatusForId(timestamps, statuses, upstream, id, depth) ==
    IF depth > StackLimit THEN [statuses |-> statuses, status |-> "RangeError"]
    ELSE IF id \in DOMAIN statuses THEN [statuses |-> statuses, status |-> statuses[id]]
    ELSE LET upstreamIds == UpstreamIds(upstream, id) IN
         IF \E i \in DOMAIN upstreamIds : Newer(timestamps, upstreamIds[i], id)
         THEN [statuses |-> Assign(statuses, id, "old"), status |-> "old"]
         ELSE LET r == someNotGood(timestamps, statuses, upstream, upstreamIds, depth + 1)
              IN IF r.result = "RangeError"
                 THEN [statuses |-> r.statuses, status |-> "RangeError"]
                 ELSE LET status == IF r.result = "true" THEN "downstream-from-old"
                                    ELSE "good"
                      IN [statuses |-> Assign(r.statuses, id, status), status |-> status]

\* upstreamIds.some((uid) => findComputeStatusForId(...) !== 'good'), lines
\* 612-614: stops at the first upstream that is not good.
someNotGood(timestamps, statuses, upstream, uids, depth) ==
    IF uids = <<>> THEN [statuses |-> statuses, result |-> "false"]
    ELSE LET r == findComputeStatusForId(timestamps, statuses, upstream, Head(uids), depth)
         IN IF r.status = "RangeError"
            THEN [statuses |-> r.statuses, result |-> "RangeError"]
            ELSE IF r.status # "good"
                 THEN [statuses |-> r.statuses, result |-> "true"]
                 ELSE someNotGood(timestamps, r.statuses, upstream, Tail(uids), depth)

\* The body of the loop of lines 589-592 for one asset.
StatusLoopBody(timestamps, statuses, upstream, asset) ==
    LET id == JSONStringify(asset.assetKey.path)
        r == findComputeStatusForId(timestamps, statuses, upstream, id, 1)
    IN IF r.status = "RangeError" THEN [threw |-> TRUE, statuses |-> r.statuses]
       ELSE [threw |-> FALSE, statuses |-> Assign(r.statuses, id, r.status)]

RECURSIVE StatusLoop(_, _, _, _)
StatusLoop(timestamps, statuses, upstream, assets) ==
    IF assets = <<>> THEN [threw |-> FALSE, statuses |-> statuses]
    ELSE LET r == StatusLoopBody(timestamps, statuses, upstream, Head(assets).v)
         IN IF r.threw THEN r
            ELSE StatusLoop(timestamps, r.statuses, upstream, Tail(assets))

\* buildGraphComputeStatuses, lines 566-594, as one function.
buildGraphComputeStatuses(graph) ==
    StatusLoop(Timestamps(graph), NoneStatuses(graph), Upstream(graph), graph.nodes)

(* ------------------------------- state -------------------------------- *)

VARIABLES
    pc,               \* where the render callback of lines 239-317 stands
    assetDefinitions, \* repositoryOrError.assetDefinitions of the query result
    graphData,        \* const graphData, line 243
    nodes,            \* the Set nodes of graphHasCycles, line 106
    hasCycles,        \* let hasCycles of graphHasCycles, line 119
    gate,             \* const hasCycles of the render callback, line 244
    layout,           \* const layout, line 245: <<>> is null, else <<result>>
    timestamps,       \* locals of buildGraphComputeStatuses, lines 567-582
    upstream,
    statuses,
    next,             \* index of the next asset of the loop of line 589
    computeStatuses,  \* const computeStatuses, line 246
    rendered,         \* what the callback returned: "SVGViewport" or "null"
    calls             \* the functions the callback has called, in order

vars == <<pc, assetDefinitions, graphData, nodes, hasCycles, gate, layout,
          timestamps, upstream, statuses, next, computeStatuses, rendered, calls>>

EmptyGraph == [nodes |-> <<>>, downstream |-> <<>>]

\* Nothing is kept from one render to the next; this is the state before any.
Blank ==
    /\ graphData = EmptyGraph
    /\ nodes = <<>>
    /\ hasCycles = FALSE
    /\ gate = FALSE
    /\ layout = <<>>
    /\ timestamps = EmptyMap
    /\ upstream = EmptyMap
    /\ statuses = EmptyMap
    /\ next = 0
    /\ computeStatuses = EmptyMap
    /\ rendered = "null"
    /\ calls = <<>>

Init ==
    /\ pc = "loading"
    /\ assetDefinitions = <<>>
    /\ Blank

(* ------------------------- the render callback ------------------------ *)

\* The query (first load or a poll, lines 197-201) delivers a repository: a
\* list of definitions of distinct keys, or a list that repeats dependency
\* records and may repeat a key.
QueryResult ==
    /\ pc = "loading"
    /\ \/ \E n \in 0 .. Len(DeclaredPaths) :
            \E deps \in [1 .. n -> GraphDependencies[n]] :
               /\ TotalLen(deps) <= MaxEdges
               /\ \E mats \in [1 .. n -> Materializations] :
                     assetDefinitions' = DefinitionList(deps, mats)
       \/ \E n \in 1 .. 2 :
            \E deps \in [1 .. n -> RepeatedDependencies[n]] :
               /\ TotalLen(deps) <= MaxRecords
               /\ \E keys \in [1 .. n -> 1 .. n] :
                     assetDefinitions' =
                         [i \in 1 .. n |->
                             Definition(DeclaredPaths[keys[i]], deps[i],
                                        <<[startTime |-> 1]>>)]
    /\ pc' = "buildGraphData"
    /\ UNCHANGED <<graphData, nodes, hasCycles, gate, layout, timestamps, upstream,
                   statuses, next, computeStatuses, rendered, calls>>

\* lines 240-242: the query delivers something that is not a repository, and
\* the callback returns null before it builds anything.
NotRepository ==
    /\ pc = "loading"
    /\ rendered' = "null"
    /\ pc' = "rendered"
    /\ UNCHANGED <<assetDefinitions, graphData, nodes, hasCycles, gate, layout,
                   timestamps, upstream, statuses, next, computeStatuses, calls>>

\* line 243
BuildGraphData ==
    /\ pc = "buildGraphData"
    /\ graphData' = buildGraphData(assetDefinitions)
    /\ calls' = Append(calls, "buildGraphData")
    /\ pc' = "graphHasCycles"
    /\ UNCHANGED <<assetDefinitions, nodes, hasCycles, gate, layout, timestamps,
                   upstream, statuses, next, computeStatuses, rendered>>

\* line 244 calls graphHasCycles: lines 106 and 119
GraphHasCyclesEnter ==
    /\ pc = "graphHasCycles"
    /\ nodes' = ObjKeys(graphData.nodes)
    /\ hasCycles' = FALSE
    /\ calls' = Append(calls, "graphHasCycles")
    /\ pc' = "while"
    /\ UNCHANGED <<assetDefinitions, graphData, gate, layout, timestamps, upstream,
                   statuses, next, computeStatuses, rendered>>

\* One iteration of the loop of lines 120-122: search is not called once
\* hasCycles is true (||), and only search removes members of nodes.
WhileIteration ==
    /\ pc = "while"
    /\ Len(nodes) # 0
    /\ LET r == search(graphData, nodes, <<>>, Head(nodes))
       IN IF hasCycles
          THEN UNCHANGED <<hasCycles, nodes>>
          ELSE /\ hasCycles' = r.result
               /\ nodes' = r.nodes
    /\ UNCHANGED <<pc, assetDefinitions, graphData, gate, layout, timestamps,
                   upstream, statuses, next, computeStatuses, rendered, calls>>

\* line 123, and the assignment of line 244
GraphHasCyclesReturn ==
    /\ pc = "while"
    /\ Len(nodes) = 0
    /\ gate' = hasCycles
    /\ pc' = "layout"
    /\ UNCHANGED <<assetDefinitions, graphData, nodes, hasCycles, layout, timestamps,
                   upstream, statuses, next, computeStatuses, rendered, calls>>

\* Variant of Layout that lays the graph out whatever graphHasCycles returned.
LayoutUngated ==
    /\ pc = "layout"
    /\ layout' = <<layoutGraph(graphData)>>
    /\ calls' = Append(calls, "layoutGraph")
    /\ pc' = "computeStatuses"
    /\ UNCHANGED <<assetDefinitions, graphData, nodes, hasCycles, gate, timestamps,
                   upstream, statuses, next, computeStatuses, rendered>>

\* line 245
Layout ==
    /\ pc = "layout"
    /\ IF gate
       THEN layout' = <<>> /\ UNCHANGED calls
       ELSE /\ layout' = <<layoutGraph(graphData)>>
            /\ calls' = Append(calls, "layoutGraph")
    /\ pc' = "computeStatuses"
    /\ UNCHANGED <<assetDefinitions, graphData, nodes, hasCycles, gate, timestamps,
                   upstream, statuses, next, computeStatuses, rendered>>

\* line 246
ComputeStatuses ==
    /\ pc = "computeStatuses"
    /\ IF gate
       THEN /\ computeStatuses' = EmptyMap
            /\ pc' = "return"
            /\ UNCHANGED calls
       ELSE /\ calls' = Append(calls, "buildGraphComputeStatuses")
            /\ pc' = "buildGraphComputeStatuses"
            /\ UNCHANGED computeStatuses
    /\ UNCHANGED <<assetDefinitions, graphData, nodes, hasCycles, gate, layout,
                   timestamps, upstream, statuses, next, rendered>>

\* buildGraphComputeStatuses up to its second loop, lines 567-588
BuildGraphComputeStatusesEnter ==
    /\ pc = "buildGraphComputeStatuses"
    /\ timestamps' = Timestamps(graphData)
    /\ upstream' = Upstream(graphData)
    /\ statuses' = NoneStatuses(graphData)
    /\ next' = 1
    /\ pc' = "for"
    /\ UNCHANGED <<assetDefinitions, graphData, nodes, hasCycles, gate, layout,
                   computeStatuses, rendered, calls>>

\* One iteration of the loop of lines 589-592; a RangeError leaves the
\* callback.
ForIteration ==
    /\ pc = "for"
    /\ next <= Len(graphData.nodes)
    /\ LET r == StatusLoopBody(timestamps, statuses, upstream, graphData.nodes[next].v)
       IN /\ statuses' = r.statuses
          /\ IF r.threw
             THEN pc' = "RangeError" /\ UNCHANGED next
             ELSE pc' = "for" /\ next' = next + 1
    /\ UNCHANGED <<assetDefinitions, graphData, nodes, hasCycles, gate, layout,
                   timestamps, upstream, computeStatuses, rendered, calls>>

\* line 593, and the assignment of line 246
BuildGraphComputeStatusesReturn ==
    /\ pc = "for"
    /\ next > Len(graphData.nodes)
    /\ computeStatuses' = statuses
    /\ pc' = "return"
    /\ UNCHANGED <<assetDefinitions, graphData, nodes, hasCycles, gate, layout,
                   timestamps, upstream, statuses, next, rendered, calls>>

\* lines 256-317: the viewport when there is a layout, else nothing
Return ==
    /\ pc = "return"
    /\ rendered' = IF layout # <<>> THEN "SVGViewport" ELSE "null"
    /\ pc' = "rendered"
    /\ UNCHANGED <<assetDefinitions, graphData, nodes, hasCycles, gate, layout,
                   timestamps, upstream, statuses, next, computeStatuses, calls>>

\* pollInterval, line 200: the next result is rendered from scratch.
Poll ==
    /\ pc = "rendered"
    /\ pc' = "loading"
    /\ assetDefinitions' = <<>>
    /\ graphData' = EmptyGraph
    /\ nodes' = <<>>
    /\ hasCycles' = FALSE
    /\ gate' = FALSE
    /\ layout' = <<>>
    /\ timestamps' = EmptyMap
    /\ upstream' = EmptyMap
    /\ statuses' = EmptyMap
    /\ next' = 0
    /\ computeStatuses' = EmptyMap
    /\ rendered' = "null"
    /\ calls' = <<>>

Next ==
    \/ QueryResult
    \/ NotRepository
    \/ BuildGraphData
    \/ GraphHasCyclesEnter
    \/ WhileIteration
    \/ GraphHasCyclesReturn
    \/ Layout
    \/ ComputeStatuses
    \/ BuildGraphComputeStatusesEnter
    \/ ForIteration
    \/ BuildGraphComputeStatusesReturn
    \/ Return
    \/ Poll

Spec == Init /\ [][Next]_vars


(* ------------- buildGraphComputeStatuses on any built graph ----------- *)

\* The function applied to the graph of any fetched list, whether or not the
\* graph has a cycle.
InitStatuses ==
    /\ pc = "buildGraphComputeStatuses"
    /\ \E n \in 0 .. Len(DeclaredPaths) :
         \E deps \in [1 .. n -> GraphDependencies[n]] :
            /\ TotalLen(deps) <= MaxEdges
            /\ \E mats \in [1 .. n -> Materializations] :
                  assetDefinitions = DefinitionList(deps, mats)
    /\ graphData = buildGraphData(assetDefinitions)
    /\ nodes = <<>>
    /\ hasCycles = FALSE
    /\ gate = FALSE
    /\ layout = <<>>
    /\ timestamps = EmptyMap
    /\ upstream = EmptyMap
    /\ statuses = EmptyMap
    /\ next = 0
    /\ computeStatuses = EmptyMap
    /\ rendered = "null"
    /\ calls = <<"buildGraphComputeStatuses">>

NextStatuses ==
    \/ BuildGraphComputeStatusesEnter
    \/ ForIteration
    \/ BuildGraphComputeStatusesReturn

SpecStatuses == InitStatuses /\ [][NextStatuses]_vars

(* --------------------------- graph vocabulary ------------------------- *)

NodeIds(graph) == SeqToSet(ObjKeys(graph.nodes))

\* The pairs <<upstream id, downstream id>> of the downstream adjacency.
Edges(graph) ==
    UNION {{<<u, d>> : d \in SeqToSet(Downstreams(graph, u))} :
               u \in SeqToSet(ObjKeys(graph.downstream))}

RECURSIVE Paths(_, _)
\* The pairs joined by a path of at least one and at most k + 1 edges.
Paths(R, k) ==
    IF k = 0 THEN R
    ELSE LET P == Paths(R, k - 1)
         IN P \cup {<<x[1][1], x[2][2]>> : x \in {y \in P \X R : y[1][2] = y[2][1]}}

\* <<u, d>> for every u with a path of one or more edges to d.
Reach(graph) == Paths(Edges(graph), Cardinality(Edges(graph)))

HasDirectedCycle(graph) == \E e \in Reach(graph) : e[1] = e[2]

Materialized(graph, id) ==
    ObjGet(graph.nodes, id).definition.assetMaterializations # <<>>

(* ------------------------------- claims ------------------------------- *)

\* C1 (as claimed): on a graph with a directed cycle graphHasCycles
\* terminates and returns true as soon as the first back-edge is found: while
\* the loop of lines 120-122 runs on such a graph, either it is over with
\* hasCycles true, or its next iteration changes the state.
C1_CyclicTerminatesTrue ==
    (pc = "while" /\ HasDirectedCycle(graphData)) =>
        IF Len(nodes) = 0 THEN hasCycles ELSE ENABLED <<WhileIteration>>_vars

\* On an acyclic graph no search reports a cycle, and the loop is never stuck.
C2_NoFalsePositive ==
    ~HasDirectedCycle(graphData) =>
        /\ ~hasCycles
        /\ ~gate
        /\ (pc = "while" /\ Len(nodes) # 0) => ENABLED <<WhileIteration>>_vars

\* C2: on an acyclic graph graphHasCycles terminates and returns false. No
\* iteration sets hasCycles (a node visited earlier that is not on the
\* current path is not reported) and the value returned is false; while
\* nodes remain the next iteration is enabled and changes the state; and
\* every iteration removes at least one member of nodes, so the loop ends
\* after at most as many iterations as the graph has nodes.
C2_AcyclicTerminatesFalse ==
    /\ [](C2_NoFalsePositive)
    /\ [][pc = "while" => (pc' = "while" => Len(nodes') < Len(nodes))]_vars

\* An acyclic graph in which c is reached along a -> c and along a -> b -> c
\* has been searched to the end.
C2_Witness ==
    /\ pc = "layout"
    /\ ~gate
    /\ {<< <<"a">>, <<"b">> >>, << <<"b">>, <<"c">> >>, << <<"a">>, <<"c">> >>}
           \subseteq Edges(graphData)
    /\ ~HasDirectedCycle(graphData)

RenderOrder ==
    <<"buildGraphData", "graphHasCycles", "layoutGraph", "buildGraphComputeStatuses">>

\* C3: the render callback of a repository calls buildGraphData,
\* graphHasCycles, layoutGraph and buildGraphComputeStatuses in this order,
\* the last two only after graphHasCycles returned false and on the graph it
\* checked; when it returned true neither is called, layout is null, the
\* status map is empty and nothing is rendered.
C3_Gate ==
    /\ calls = SubSeq(RenderOrder, 1, Len(calls))
    /\ Len(calls) > 2 => (pc # "while" /\ ~gate /\ ~hasCycles /\ Len(nodes) = 0)
    /\ (pc \in {"return", "rendered"} /\ gate) =>
           /\ Len(calls) = 2
           /\ layout = <<>>
           /\ computeStatuses = EmptyMap
           /\ rendered = "null"
    /\ (pc \in {"return", "rendered"} /\ ~gate /\ calls # <<>>) =>
           /\ Len(calls) = 4
           /\ layout = <<layoutGraph(graphData)>>
           /\ computeStatuses = buildGraphComputeStatuses(graphData).statuses
           /\ graphData = buildGraphData(assetDefinitions)
           /\ pc = "rendered" => rendered = "SVGViewport"

\* A render whose graph had a cycle has returned nothing.
C3_Witness ==
    /\ pc = "rendered"
    /\ gate
    /\ HasDirectedCycle(graphData)
    /\ rendered = "null"
    /\ calls = <<"buildGraphData", "graphHasCycles">>

\* C4 (as claimed): buildGraphComputeStatuses terminates on every finite
\* graph, one with a directed cycle included: the recursion never exhausts
\* the stack.
C4_TerminatesOnEveryGraph == pc # "RangeError"

\* On an acyclic graph no call exhausts the stack and the loop index stays
\* within the assets.
C4_NoOverflowOnAcyclic ==
    ~HasDirectedCycle(graphData) =>
        /\ pc # "RangeError"
        /\ pc = "for" => next \in 1 .. Len(graphData.nodes) + 1

\* C4 (amended): buildGraphComputeStatuses terminates on every finite acyclic
\* graph: the recursion of findComputeStatusForId never exhausts the stack,
\* and every iteration of the loop of lines 589-592 returns and moves on to
\* the next asset until the function returns.
C4_TerminatesOnAcyclic ==
    /\ [](C4_NoOverflowOnAcyclic)
    /\ [][(pc = "for" /\ ~HasDirectedCycle(graphData)) =>
              \/ pc' = "for" /\ next' = next + 1
              \/ pc' = "return" /\ next = Len(graphData.nodes) + 1]_vars

\* The function has returned on the chain c -> b -> a, whose first asset is
\* computed by a recursion through all three nodes.
C4_Witness ==
    /\ pc = "return"
    /\ Edges(graphData) = {<< <<"c">>, <<"b">> >>, << <<"b">>, <<"a">> >>}
    /\ \A id \in NodeIds(graphData) : computeStatuses[id] = "good"

DirectUpstreamNodes(graph, d) ==
    {u \in NodeIds(graph) : <<u, d>> \in Edges(graph)}

\* C5: in an acyclic graph a materialized node is 'old' exactly when some
\* direct upstream node has a timestamp strictly greater than its own,
\* whatever the statuses of its upstream nodes are.
C5_FreshnessRule ==
    (pc = "return" /\ ~HasDirectedCycle(graphData)) =>
        \A d \in NodeIds(graphData) :
            Materialized(graphData, d) =>
                (computeStatuses[d] = "old" <=>
                     \E u \in DirectUpstreamNodes(graphData, d) :
                         Timestamps(graphData)[u] > Timestamps(graphData)[d])

\* A node that is 'old' through one upstream while another of its upstreams,
\* itself 'old', has the node's own timestamp.
C5_Witness ==
    /\ pc = "return"
    /\ ~HasDirectedCycle(graphData)
    /\ \E d \in NodeIds(graphData) : \E u \in DirectUpstreamNodes(graphData, d) :
          /\ computeStatuses[u] = "old"
          /\ computeStatuses[d] = "old"
          /\ Timestamps(graphData)[u] = Timestamps(graphData)[d]

\* C6: in an acyclic graph a materialized node with no direct upstream node
\* of a strictly greater timestamp and with a direct upstream node whose
\* final status is not 'good' is 'downstream-from-old'.
C6_PropagationRule ==
    (pc = "return" /\ ~HasDirectedCycle(graphData)) =>
        \A d \in NodeIds(graphData) :
            ( /\ Materialized(graphData, d)
              /\ \A u \in DirectUpstreamNodes(graphData, d) :
                     Timestamps(graphData)[u] <= Timestamps(graphData)[d]
              /\ \E u \in DirectUpstreamNodes(graphData, d) :
                     computeStatuses[u] # "good" )
            => computeStatuses[d] = "downstream-from-old"

\* a (newer) -> b ('old') -> c (newer than b): c is 'downstream-from-old'.
C6_Witness ==
    /\ pc = "return"
    /\ ~HasDirectedCycle(graphData)
    /\ \E b \in NodeIds(graphData) : \E c \in NodeIds(graphData) :
          /\ <<b, c>> \in Edges(graphData)
          /\ computeStatuses[b] = "old"
          /\ Timestamps(graphData)[c] > Timestamps(graphData)[b]
          /\ computeStatuses[c] = "downstream-from-old"

Ancestors(graph, id) == {e[1] : e \in {x \in Reach(graph) : x[2] = id}}

NoDangling(graph) == \A e \in Edges(graph) : e[1] \in NodeIds(graph)

\* C7: in an acyclic graph without dangling references a node is 'good' if
\* and only if it and all its ancestors are materialized and no edge u -> d
\* on a path into the node has timestamp(u) > timestamp(d).
C7_GoodCharacterisation ==
    (pc = "return" /\ ~HasDirectedCycle(graphData) /\ NoDangling(graphData)) =>
        \A id \in NodeIds(graphData) :
            LET into == Ancestors(graphData, id) \cup {id}
            IN computeStatuses[id] = "good" <=>
                   /\ \A m \in into : Materialized(graphData, m)
                   /\ \A e \in Edges(graphData) :
                          e[2] \in into =>
                              Timestamps(graphData)[e[1]] <= Timestamps(graphData)[e[2]]

\* The chain a -> b -> c, all materialized with timestamps that do not
\* decrease along the edges, is all 'good'.
C7_Witness ==
    /\ pc = "return"
    /\ Edges(graphData) = {<< <<"a">>, <<"b">> >>, << <<"b">>, <<"c">> >>}
    /\ Timestamps(graphData)[<<"a">>] < Timestamps(graphData)[<<"c">>]
    /\ \A id \in NodeIds(graphData) :
          Materialized(graphData, id) /\ computeStatuses[id] = "good"

\* C8: every node without a materialization has status 'none' from the first
\* loop on, through every iteration of the second loop and in the map
\* returned, and no materialized node ever gets 'none'; the map returned has
\* a status for every node.
C8_NoneRule ==
    /\ pc \in {"for", "return", "RangeError"} =>
          \A id \in NodeIds(graphData) :
              IF Materialized(graphData, id)
              THEN id \in DOMAIN statuses => statuses[id] # "none"
              ELSE id \in DOMAIN statuses /\ statuses[id] = "none"
    /\ pc = "return" =>
          \A id \in NodeIds(graphData) :
              /\ id \in DOMAIN computeStatuses
              /\ computeStatuses[id] = "none" <=> ~Materialized(graphData, id)

\* A never-materialized node between a materialized upstream and a
\* materialized downstream is 'none' in the map returned.
C8_Witness ==
    /\ pc = "return"
    /\ \E u \in NodeIds(graphData) : \E id \in NodeIds(graphData) :
       \E d \in NodeIds(graphData) :
          /\ <<u, id>> \in Edges(graphData) /\ <<id, d>> \in Edges(graphData)
          /\ Timestamps(graphData)[u] > 0
          /\ Materialized(graphData, d)
          /\ ~Materialized(graphData, id)
          /\ computeStatuses[id] = "none"

Reorderings(s) ==
    {[i \in DOMAIN s |-> s[p[i]]] :
         p \in {q \in [DOMAIN s -> DOMAIN s] : \A i, j \in DOMAIN s : i # j => q[i] # q[j]}}

RECURSIVE DependencyOrders(_)
\* The lists that differ from defs only in the order of dependency lists.
DependencyOrders(defs) ==
    IF defs = <<>> THEN {<<>>}
    ELSE {<<[Head(defs) EXCEPT !.dependencies = d]>> \o t :
              d \in Reorderings(Head(defs).dependencies),
              t \in DependencyOrders(Tail(defs))}

Orders(defs) == UNION {Reorderings(l) : l \in DependencyOrders(defs)}

\* C9 (as claimed): for an acyclic set of definitions the status map returned
\* is the same for every order of the list of definitions and of their
\* dependency lists.
C9_OrderIndependent ==
    (pc = "return" /\ ~HasDirectedCycle(graphData)) =>
        \A l \in Orders(assetDefinitions) :
            buildGraphComputeStatuses(buildGraphData(l)).statuses = computeStatuses

AllIds == SeqToSet(DeclaredPaths) \cup {ForeignPath}

\* The dependency records of a list, each with its place in input order.
Records(defs) ==
    UNION {{[def |-> i, dep |-> j,
             up |-> JSONStringify(defs[i].dependencies[j].upstreamAsset.assetKey.path),
             down |-> JSONStringify(defs[i].assetKey.path),
             name |-> defs[i].dependencies[j].inputName] :
                j \in DOMAIN defs[i].dependencies} : i \in DOMAIN defs}

Later(r, q) == r.def > q.def \/ (r.def = q.def /\ r.dep > q.dep)

\* The entries of the downstream adjacency of u whose key is d.
EntriesFor(graph, u, d) ==
    IF ObjHas(graph.downstream, u)
    THEN {i \in DOMAIN ObjGet(graph.downstream, u) : ObjGet(graph.downstream, u)[i].k = d}
    ELSE {}

\* C10: after buildGraphData the downstream adjacency of an upstream id has
\* exactly one entry for a downstream id if some dependency record names the
\* pair and none otherwise, and the entry's label is the input name of the
\* last record that names the pair.
C10_EdgeCollapsing ==
    pc = "graphHasCycles" =>
        \A u \in AllIds : \A d \in AllIds :
            LET named == {r \in Records(assetDefinitions) : r.up = u /\ r.down = d}
                entries == EntriesFor(graphData, u, d)
            IN IF named = {} THEN entries = {}
               ELSE /\ Cardinality(entries) = 1
                    /\ \E r \in named :
                          /\ \A q \in named : q = r \/ Later(r, q)
                          /\ \A i \in entries :
                                ObjGet(graphData.downstream, u)[i].v = r.name

\* A pair named by two records under different input names, of an upstream
\* that has another downstream too.
C10_Witness ==
    /\ pc = "graphHasCycles"
    /\ \E r \in Records(assetDefinitions) : \E q \in Records(assetDefinitions) :
          /\ r.up = q.up /\ r.down = q.down /\ r.name # q.name
          /\ Len(ObjGet(graphData.downstream, r.up)) = 2

Status == {"good", "old", "downstream-from-old", "none"}

\* C11 (as claimed): the key set of the map returned by
\* buildGraphComputeStatuses is exactly the key set of the graph's node
\* mapping, every node has one of the four statuses, and no entry is created
\* for an id that is not a node, even when a dependency names a dangling
\* upstream id.
C11_KeysAreNodeIds ==
    pc = "return" =>
        /\ DOMAIN computeStatuses = NodeIds(graphData)
        /\ \A id \in NodeIds(graphData) : computeStatuses[id] \in Status

=============================================================================
